---- MODULE Spec2Model ----
(***************************************************************************)
(* ScheduleX scheduling services.                                          *)
(*                                                                         *)
(* Two implementations of generateScheduleSuggestions are modelled:        *)
(*   - the greedy engine of AISchedulingService.backup.ts                  *)
(*     (findAvailableTimeSlots -> generateTaskPlacements ->                *)
(*      optimizeSchedule), and                                             *)
(*   - the live simple service of AISchedulingService.ts, which places     *)
(*     every task at its deadline.                                         *)
(*                                                                         *)
(* Time is counted in minutes from 00:00 of day 0; day 0 is a Sunday, so   *)
(* Date.getDay() of a time on day n is n % 7.                              *)
(***************************************************************************)
EXTENDS Integers, Sequences, FiniteSets, TLC

(***************************************************************************)
(* Bounds of the model.                                                    *)
(***************************************************************************)
MaxTasks == 2
MaxEvents == 2
MaxFocusBlocks == 26

(***************************************************************************)
(* date-fns / Date helpers, in minutes.                                    *)
(***************************************************************************)
MinutesPerDay == 24 * 60

At(day, h, m) == day * MinutesPerDay + h * 60 + m

startOfDay(t) == (t \div MinutesPerDay) * MinutesPerDay

\* 23:59:59.999 of the day: the last minute of the day at minute resolution
endOfDay(t) == startOfDay(t) + MinutesPerDay - 1

addMinutes(t, n) == t + n

addDays(t, n) == t + n * MinutesPerDay

\* format(t, 'yyyy-MM-dd'): two times format alike iff they are on one day
formatDay(t) == t \div MinutesPerDay

getDay(t) == (t \div MinutesPerDay) % 7

getHours(t) == (t % MinutesPerDay) \div 60

getMinutes(t) == t % 60

isWithinInterval(t, lo, hi) == lo <= t /\ t <= hi

Min(a, b) == IF a <= b THEN a ELSE b

Max(a, b) == IF a >= b THEN a ELSE b

Abs(a) == IF a >= 0 THEN a ELSE 0 - a

\* the sequence s rearranged so that element i goes to position rank[i]
\* (concatenating << >> makes the value a plain tuple)
Permuted(s, rank) ==
  [r \in 1..Len(s) |-> s[CHOOSE i \in 1..Len(s) : rank[i] = r]] \o << >>

\* Array.prototype.sort with comparator cmp: stable, negative result = "first"
StableSort(s, cmp(_, _)) ==
  Permuted(s, [i \in 1..Len(s) |->
                 Cardinality({j \in 1..Len(s) :
                     \/ cmp(s[j], s[i]) < 0
                     \/ cmp(s[j], s[i]) = 0 /\ j < i}) + 1] \o << >>)

\* s.map(f) for sequences
Map(s, f(_)) == [i \in 1..Len(s) |-> f(s[i])] \o << >>

\* concatenation of a sequence of sequences (slots.push(...daySlots) in a loop)
RECURSIVE Flatten(_)
Flatten(ss) == IF ss = << >> THEN << >> ELSE Head(ss) \o Flatten(Tail(ss))

(***************************************************************************)
(* Values of the data model (types/calendar.ts).                           *)
(* An optional Date is a sequence: << >> is undefined, <<t>> is the date.  *)
(***************************************************************************)
TimeSlot(s, e) == [start |-> s, end |-> e]

HasDeadline(task) == task.deadline # << >>

Deadline(task) == task.deadline[1]

\* "HH:MM" strings of the preferences
HHMM(h, m) == [hours |-> h, minutes |-> m]

parseTimeToDate(date, timeString) ==
  startOfDay(date) + timeString.hours * 60 + timeString.minutes

(***************************************************************************)
(* Interval Aggregator: findDailyAvailableSlots, findAvailableTimeSlots.   *)
(***************************************************************************)
\* the events the day filter keeps: start or end lies on the day
dayEventsOf(date, existingEvents) ==
  SelectSeq(existingEvents, LAMBDA ev :
      \/ isWithinInterval(ev.start, startOfDay(date), endOfDay(date))
      \/ isWithinInterval(ev.end, startOfDay(date), endOfDay(date)))

compareEventStart(a, b) == a.start - b.start

\* the gap loop over the sorted events of the day: state is
\* [currentTime, slots]; returns the state after the events from index i on
RECURSIVE gapLoop(_, _, _, _)
gapLoop(evs, i, st, workEnd) ==
  IF i > Len(evs) THEN st
  ELSE LET ev == evs[i]
           slotEnd == Min(ev.start, workEnd)
           pushed == IF ev.start > st.currentTime /\ slotEnd > st.currentTime
                     THEN Append(st.slots, TimeSlot(st.currentTime, slotEnd))
                     ELSE st.slots
       IN  gapLoop(evs, i + 1,
                   [currentTime |-> Max(st.currentTime, ev.end), slots |-> pushed],
                   workEnd)

\* the check for remaining time after the last event
withRemainingTime(st, workEnd) ==
  IF st.currentTime < workEnd
  THEN Append(st.slots, TimeSlot(st.currentTime, workEnd))
  ELSE st.slots

findDailyAvailableSlots(date, existingEvents, preferences) ==
  LET workStart == parseTimeToDate(date, preferences.workingHours.start)
      workEnd == parseTimeToDate(date, preferences.workingHours.end)
      dayEvents == StableSort(dayEventsOf(date, existingEvents), compareEventStart)
  IN  withRemainingTime(
        gapLoop(dayEvents, 1, [currentTime |-> workStart, slots |-> << >>], workEnd),
        workEnd)

\* the deadline days collected before the day loop
deadlineDates(tasks) ==
  {formatDay(Deadline(tasks[i])) : i \in {j \in 1..Len(tasks) :
        HasDeadline(tasks[j]) /\ ~tasks[j].isCompleted}}

\* the days the loop visits: startOfDay(range.start), +1 day, ... <= endOfDay(range.end)
rangeDays(dateRange) ==
  LET first == formatDay(dateRange.start)
      last == formatDay(dateRange.end)
  IN  [k \in 1..(IF last >= first THEN last - first + 1 ELSE 0) |->
          (first + k - 1) * MinutesPerDay] \o << >>

\* mutant: only working days are visited, deadline days are not added
findAvailableTimeSlots_workingDaysOnly(existingEvents, preferences, dateRange, tasks) ==
  Flatten(Map(rangeDays(dateRange), LAMBDA currentDate :
    IF getDay(currentDate) \in preferences.workingDays
    THEN findDailyAvailableSlots(currentDate, existingEvents, preferences)
    ELSE << >>))

findAvailableTimeSlots(existingEvents, preferences, dateRange, tasks) ==
  LET days == rangeDays(dateRange)
      daySlots(currentDate) ==
        IF \/ getDay(currentDate) \in preferences.workingDays
           \/ formatDay(currentDate) \in deadlineDates(tasks)
        THEN findDailyAvailableSlots(currentDate, existingEvents, preferences)
        ELSE << >>
  IN  Flatten(Map(days, daySlots))

(***************************************************************************)
(* Slot Segmenter: createDetailedTimeSlots.                                *)
(***************************************************************************)
slotInterval == 60

\* the buffer the segmenter adds to the task duration, whatever bufferTime is
segmentBuffer == 30

detailedSlotsOf(slot, taskDuration) ==
  LET slotDurationMinutes == slot.end - slot.start
      need == taskDuration + segmentBuffer
      \* currentStart = slot.start + k * slotInterval while currentStart + need <= slot.end
      steps == (slotDurationMinutes - need) \div slotInterval + 1
  IN  IF slotDurationMinutes < need
      THEN <<slot>>
      ELSE [k \in 1..steps |->
              LET currentStart == slot.start + (k - 1) * slotInterval
              IN  TimeSlot(currentStart,
                           Min(addMinutes(currentStart, slotInterval), slot.end))] \o << >>

\* mutant: the free windows are offered whole, without hourly candidates
createDetailedTimeSlots_unsegmented(availableSlots, taskDuration) == availableSlots

createDetailedTimeSlots(availableSlots, taskDuration) ==
  Flatten(Map(availableSlots, LAMBDA slot : detailedSlotsOf(slot, taskDuration)))

(***************************************************************************)
(* Slot Scorer: scoreSlotForTask.                                          *)
(***************************************************************************)
timeOfDayScore(analysis, hour) ==
  LET tod == analysis.optimal_time_of_day
  IN  IF tod = "early_morning" /\ hour >= 6 /\ hour < 8 THEN 30
      ELSE IF tod = "morning" /\ hour >= 8 /\ hour < 12 THEN 25
      ELSE IF tod = "late_morning" /\ hour >= 10 /\ hour < 12 THEN 20
      ELSE IF tod = "afternoon" /\ hour >= 12 /\ hour < 17 THEN 20
      ELSE IF tod = "evening" /\ hour >= 17 /\ hour < 22 THEN 20
      ELSE IF tod = "any" THEN 10
      ELSE 0

\* task.title is the set of the keywords its lower-cased text contains
titleScore(title, hour) ==
    (IF "breakfast" \in title \/ "morning" \in title
     THEN IF hour >= 7 /\ hour <= 9 THEN 40
          ELSE IF hour > 10 THEN 0 - 30 ELSE 0
     ELSE 0)
  + (IF "lunch" \in title
     THEN IF hour >= 11 /\ hour <= 14 THEN 30 ELSE 0 - 15
     ELSE 0)
  + (IF "dinner" \in title
     THEN IF hour >= 17 /\ hour <= 20 THEN 30 ELSE 0 - 15
     ELSE 0)

priorityScore(priority) ==
  CASE priority = "urgent" -> 30
    [] priority = "high" -> 20
    [] priority = "medium" -> 10
    [] priority = "low" -> 5
    [] OTHER -> 0

\* Math.round(daysUntilDeadline * 20) for a difference of diff minutes
earlyPenalty(diff) == (2 * 20 * diff + MinutesPerDay) \div (2 * MinutesPerDay)

exactDeadlineBonus == 1000

\* mutant: the deadline adds nothing to the score
deadlineScore_none(slot, task) == 0

deadlineScore(slot, task) ==
  IF ~HasDeadline(task) THEN 0
  ELSE
    LET deadline == Deadline(task)
        isDeadlineDay == formatDay(deadline) = formatDay(slot.start)
        \* daysUntilDeadline, in minutes
        diff == deadline - slot.start
        \* within 1 minute (60000 ms)
        isExactDeadlineTime == Abs(slot.start - deadline) < 1
        deadlineTime == getHours(deadline) * 60 + getMinutes(deadline)
        slotTime == getHours(slot.start) * 60 + getMinutes(slot.start)
        timeDifference == Abs(deadlineTime - slotTime)
        timeProximityBonus == Max(0, 100 - (timeDifference \div 10))
    IN  IF isExactDeadlineTime THEN exactDeadlineBonus
        ELSE IF isDeadlineDay THEN 500 + timeProximityBonus
        ELSE IF diff >= 0 /\ diff < MinutesPerDay THEN 50
        ELSE IF diff >= MinutesPerDay /\ diff < 2 * MinutesPerDay THEN 20
        ELSE IF diff < 0 THEN 0 - 1000
        ELSE 0 - earlyPenalty(diff)

isTimeInFocusBlock(time, focusBlock) ==
  LET timeInMinutes == getHours(time) * 60 + getMinutes(time)
      startInMinutes == focusBlock.start.hours * 60 + focusBlock.start.minutes
      endInMinutes == focusBlock.end.hours * 60 + focusBlock.end.minutes
  IN  /\ getDay(time) \in focusBlock.days
      /\ timeInMinutes >= startInMinutes
      /\ timeInMinutes <= endInMinutes

focusScore(slot, analysis, preferences) ==
  15 * Cardinality({b \in 1..Len(preferences.focusTimeBlocks) :
          /\ isTimeInFocusBlock(slot.start, preferences.focusTimeBlocks[b])
          /\ analysis.focus_level_required = "high"})

\* durationRatio = taskDuration / slotDuration, compared without division
durationFitScore(slot, taskDuration) ==
  LET slotDuration == slot.end - slot.start
  IN  IF 5 * taskDuration > 4 * slotDuration /\ taskDuration <= slotDuration THEN 10
      ELSE IF 2 * taskDuration > slotDuration /\ 5 * taskDuration <= 4 * slotDuration THEN 5
      ELSE 0

scoreSlotForTask(slot, task, preferences) ==
  LET hour == getHours(slot.start)
  IN    50
      + timeOfDayScore(task.analysis, hour)
      + titleScore(task.title, hour)
      + priorityScore(task.priority)
      + deadlineScore(slot, task)
      + focusScore(slot, task.analysis, preferences)
      + durationFitScore(slot, task.duration)

(***************************************************************************)
(* Narrative collaborator (callGeminiAPI) and generateSchedulingReasoning. *)
(* A response is [ok, text]; ok = FALSE is a fetch failure or a malformed  *)
(* body (callGeminiAPI throws).  A text is a sequence of characters.       *)
(***************************************************************************)
RECURSIVE trimStart(_)
trimStart(text) ==
  IF text # << >> /\ Head(text) = " " THEN trimStart(Tail(text)) ELSE text

RECURSIVE trimEnd(_)
trimEnd(text) ==
  IF text # << >> /\ text[Len(text)] = " "
  THEN trimEnd(SubSeq(text, 1, Len(text) - 1))
  ELSE text

trim(text) == trimEnd(trimStart(text))

\* the templated fallback of the catch branch
fallbackReasoning(task, slot) ==
  <<IF getHours(slot.start) < 12 THEN "morning"
    ELSE IF getHours(slot.start) < 17 THEN "afternoon" ELSE "evening",
    " ", task.priority>>

generateSchedulingReasoning(task, slot, response) ==
  IF response.ok THEN trim(response.text) ELSE fallbackReasoning(task, slot)

(***************************************************************************)
(* analyzeTasks: the analysis of task i is analysis[i] of the parsed       *)
(* response, or the default analysis when the call fails or the entry is   *)
(* missing.                                                                *)
(***************************************************************************)
getDefaultAnalysis ==
  [optimal_time_of_day |-> "any", focus_level_required |-> "medium"]

analyzeTasks(tasks, response) ==
  [i \in 1..Len(tasks) |->
     [id |-> tasks[i].id, title |-> tasks[i].title, duration |-> tasks[i].duration,
      priority |-> tasks[i].priority, deadline |-> tasks[i].deadline,
      isCompleted |-> tasks[i].isCompleted,
      analysis |-> IF response.ok /\ i <= Len(response.analysis)
                   THEN response.analysis[i]
                   ELSE getDefaultAnalysis]]

(***************************************************************************)
(* Task Prioritizer: sortTasksByPriority.                                  *)
(***************************************************************************)
priorityOrder(priority) ==
  CASE priority = "urgent" -> 4
    [] priority = "high" -> 3
    [] priority = "medium" -> 2
    [] priority = "low" -> 1

\* mutant: the comparator without the deadline tie-break
compareTasks_priorityOnly(a, b) == priorityOrder(b.priority) - priorityOrder(a.priority)

compareTasks(a, b) ==
  LET priorityDiff == priorityOrder(b.priority) - priorityOrder(a.priority)
  IN  IF priorityDiff # 0 THEN priorityDiff
      ELSE IF HasDeadline(a) /\ HasDeadline(b) THEN Deadline(a) - Deadline(b)
      ELSE IF HasDeadline(a) /\ ~HasDeadline(b) THEN 0 - 1
      ELSE IF ~HasDeadline(a) /\ HasDeadline(b) THEN 1
      ELSE 0

sortTasksByPriority(tasks) == StableSort(tasks, compareTasks)

(***************************************************************************)
(* Greedy Assigner: findOptimalSlotForTask, removeUsedSlot.                *)
(***************************************************************************)
\* mutant: the filter without the fit test
hasEnoughTime_always(slot, task, preferences) == TRUE

\* the fit test of the filter
hasEnoughTime(slot, task, preferences) ==
  slot.end - slot.start >= task.duration + preferences.bufferTime

\* mutant: the filter without the deadline test
meetsDeadline_always(slot, task) == TRUE

\* the deadline test of the filter
meetsDeadline(slot, task) ==
  IF ~HasDeadline(task) THEN TRUE
  ELSE LET taskEndTime == addMinutes(slot.start, task.duration)
       IN  IF formatDay(Deadline(task)) = formatDay(slot.start) THEN TRUE
           ELSE IF slot.start < Deadline(task)
                THEN taskEndTime <= startOfDay(Deadline(task))
                ELSE FALSE

suitableSlotsFor(task, availableSlots, preferences) ==
  SelectSeq(createDetailedTimeSlots(availableSlots, task.duration),
            LAMBDA slot : hasEnoughTime(slot, task, preferences)
                          /\ meetsDeadline(slot, task))

compareScored(a, b) == b.score - a.score

scoredSlotsFor(task, availableSlots, preferences) ==
  StableSort(Map(suitableSlotsFor(task, availableSlots, preferences),
                 LAMBDA slot : [slot |-> slot,
                                score |-> scoreSlotForTask(slot, task, preferences)]),
             compareScored)

\* mutant: the suggestion takes the whole candidate
suggestedSlotOf_candidateEnd(bestSlot, task) == TimeSlot(bestSlot.start, bestSlot.end)

\* the window proposed for the task in a chosen candidate
suggestedSlotOf(bestSlot, task) ==
  TimeSlot(bestSlot.start, addMinutes(bestSlot.start, task.duration))

\* Math.min(score / 100, 1), in hundredths
confidenceOf(score) == Min(score, 100)

\* the suggestion built from the sorted scored candidates; << >> is null and
\* now is Date.now()
suggestionFrom(scoredSlots, task, response, now) ==
  IF Len(scoredSlots) = 0 THEN << >>
  ELSE LET bestSlot == scoredSlots[1].slot
           suggestedSlot == suggestedSlotOf(bestSlot, task)
       IN  <<[id |-> <<task.id, now>>,
              task |-> task,
              suggestedSlot |-> suggestedSlot,
              confidence |-> confidenceOf(scoredSlots[1].score),
              reasoning |-> generateSchedulingReasoning(task, suggestedSlot, response),
              alternatives |->
                Map(SubSeq(scoredSlots, 2, Min(4, Len(scoredSlots))),
                    LAMBDA s : suggestedSlotOf(s.slot, task))]>>

findOptimalSlotForTask(task, availableSlots, preferences, response, now) ==
  suggestionFrom(scoredSlotsFor(task, availableSlots, preferences), task, response, now)

\* availableSlots.findIndex(...): 1-based, -1 when no window contains usedSlot
findIndex(availableSlots, usedSlot) ==
  LET hits == {k \in 1..Len(availableSlots) :
                 /\ availableSlots[k].start <= usedSlot.start
                 /\ availableSlots[k].end >= usedSlot.end}
  IN  IF hits = {} THEN 0 - 1 ELSE CHOOSE k \in hits : \A h \in hits : k <= h

\* mutant: the used window stays in the pool
removeUsedSlot_noSplit(availableSlots, usedSlot) == availableSlots

\* mutant: the part of the window before the used slot is not put back
removeUsedSlot_noLeading(availableSlots, usedSlot) ==
  LET index == findIndex(availableSlots, usedSlot)
  IN  IF index = 0 - 1 THEN availableSlots
      ELSE SubSeq(availableSlots, 1, index - 1)
           \o SubSeq(availableSlots, index + 1, Len(availableSlots))
           \o (IF usedSlot.end < availableSlots[index].end
               THEN <<TimeSlot(usedSlot.end, availableSlots[index].end)>>
               ELSE << >>)

removeUsedSlot(availableSlots, usedSlot) ==
  LET index == findIndex(availableSlots, usedSlot)
  IN  IF index = 0 - 1 THEN availableSlots
      ELSE LET originalSlot == availableSlots[index]
               spliced == SubSeq(availableSlots, 1, index - 1)
                          \o SubSeq(availableSlots, index + 1, Len(availableSlots))
               leading == IF originalSlot.start < usedSlot.start
                          THEN <<TimeSlot(originalSlot.start, usedSlot.start)>>
                          ELSE << >>
               trailing == IF usedSlot.end < originalSlot.end
                           THEN <<TimeSlot(usedSlot.end, originalSlot.end)>>
                           ELSE << >>
           IN  spliced \o leading \o trailing

(***************************************************************************)
(* Conflict Detector, Workload Analyzer, optimizeSchedule.                 *)
(***************************************************************************)
\* mutant: windows that only touch count as overlapping
doTimesSlotsOverlap_touching(slot1, slot2) ==
  slot1.start <= slot2.end /\ slot2.start <= slot1.end

doTimesSlotsOverlap(slot1, slot2) ==
  slot1.start < slot2.end /\ slot2.start < slot1.end

\* the index pairs (i, j) in the order of the nested loops: i ascending, then j
indexPairs(n) ==
  [k \in 1..(n * n) |-> <<((k - 1) \div n) + 1, ((k - 1) % n) + 1>>] \o << >>

\* the conflicts array, in push order: overlaps first, then deadline conflicts
detectSchedulingConflicts(suggestions) ==
  Map(SelectSeq(indexPairs(Len(suggestions)), LAMBDA p :
        /\ p[1] < p[2]
        /\ doTimesSlotsOverlap(suggestions[p[1]].suggestedSlot,
                               suggestions[p[2]].suggestedSlot)),
      LAMBDA p : [type |-> "overlap", severity |-> "high",
                  affectedTasks |-> <<suggestions[p[1]].task.id,
                                      suggestions[p[2]].task.id>>])
  \o
  Map(SelectSeq(suggestions, LAMBDA s :
        /\ HasDeadline(s.task)
        /\ s.suggestedSlot.end > Deadline(s.task)),
      LAMBDA s : [type |-> "deadline_conflict", severity |-> "high",
                  affectedTasks |-> <<s.task.id>>])

\* mutant: the limits of the classes are exclusive
classifyWorkloadIntensity_exclusive(minutes) ==
  IF minutes < 2 * 60 THEN "light"
  ELSE IF minutes < 4 * 60 THEN "moderate"
  ELSE IF minutes < 6 * 60 THEN "heavy"
  ELSE "overloaded"

\* hours are kept in minutes (hours * 60)
classifyWorkloadIntensity(minutes) ==
  IF minutes <= 2 * 60 THEN "light"
  ELSE IF minutes <= 4 * 60 THEN "moderate"
  ELSE IF minutes <= 6 * 60 THEN "heavy"
  ELSE "overloaded"

RECURSIVE sumDurations(_, _)
sumDurations(suggestions, idxs) ==
  IF idxs = {} THEN 0
  ELSE LET i == CHOOSE j \in idxs : TRUE
       IN  suggestions[i].task.duration + sumDurations(suggestions, idxs \ {i})

calculateWorkloadBalance(suggestions, dateRange) ==
  Map(rangeDays(dateRange), LAMBDA day :
    LET counted == {i \in 1..Len(suggestions) :
                      /\ suggestions[i].confidence > 30
                      /\ formatDay(suggestions[i].suggestedSlot.start) = formatDay(day)}
        minutes == sumDurations(suggestions, counted)
    IN  [date |-> formatDay(day),
         minutes |-> minutes,
         taskCount |-> Cardinality(counted),
         intensity |-> classifyWorkloadIntensity(minutes)])

optimizeSchedule(suggestions, dateRange) ==
  [totalTasks |-> Len(suggestions),
   scheduledTasks |-> Len(SelectSeq(suggestions, LAMBDA s : s.confidence > 30)),
   unscheduledTasks |->
     Map(SelectSeq(suggestions, LAMBDA s : s.confidence <= 30), LAMBDA s : s.task.id),
   suggestions |-> suggestions,
   workloadBalance |-> calculateWorkloadBalance(suggestions, dateRange),
   conflicts |-> detectSchedulingConflicts(suggestions)]

(***************************************************************************)
(* The live simple service (AISchedulingService.ts).                       *)
(***************************************************************************)
\* mutant: the suggestion is moved to the hour after the selected time
simpleSuggestions_nextHour(tasks, now) ==
  Map(SelectSeq(tasks, HasDeadline), LAMBDA task :
    LET scheduledStart == addMinutes(Deadline(task), 60)
        scheduledEnd == addMinutes(scheduledStart, task.duration)
    IN  [id |-> <<task.id, now>>,
         task |-> task,
         suggestedSlot |-> TimeSlot(scheduledStart, scheduledEnd),
         confidence |-> 100,
         reasoning |-> <<"Scheduled at your selected time">>,
         alternatives |-> << >>])

simpleSuggestions(tasks, now) ==
  Map(SelectSeq(tasks, HasDeadline), LAMBDA task :
    LET scheduledStart == Deadline(task)
        scheduledEnd == addMinutes(scheduledStart, task.duration)
    IN  [id |-> <<task.id, now>>,
         task |-> task,
         suggestedSlot |-> TimeSlot(scheduledStart, scheduledEnd),
         confidence |-> 100,
         reasoning |-> <<"Scheduled at your selected time">>,
         alternatives |-> << >>])

simpleOptimization(tasks, now) ==
  LET suggestions == simpleSuggestions(tasks, now)
  IN  [totalTasks |-> Len(tasks),
       scheduledTasks |-> Len(suggestions),
       unscheduledTasks |->
         Map(SelectSeq(tasks, LAMBDA task : ~HasDeadline(task)), LAMBDA task : task.id),
       suggestions |-> suggestions,
       workloadBalance |-> << >>,
       conflicts |-> << >>]

(***************************************************************************)
(* Inputs of a run.  Day 1 is a Monday, day 0 the Sunday before it.        *)
(***************************************************************************)
Task(id, title, duration, priority, deadline, isCompleted) ==
  [id |-> id, title |-> title, duration |-> duration, priority |-> priority,
   deadline |-> deadline, isCompleted |-> isCompleted]

Preferences(workStart, workEnd, workingDays, bufferTime, focusTimeBlocks) ==
  [workingHours |-> [start |-> workStart, end |-> workEnd],
   workingDays |-> workingDays,
   bufferTime |-> bufferTime,
   focusTimeBlocks |-> focusTimeBlocks]

FocusBlock(s, e, days) == [start |-> s, end |-> e, days |-> days]

Weekdays == {1, 2, 3, 4, 5}

\* the preferences the page starts with
DefaultFocusBlocks ==
  <<FocusBlock(HHMM(9, 0), HHMM(11, 0), Weekdays),
    FocusBlock(HHMM(14, 0), HHMM(16, 0), Weekdays)>>

DefaultBufferTime == 15

DefaultPreferences ==
  Preferences(HHMM(9, 0), HHMM(17, 0), Weekdays, DefaultBufferTime, DefaultFocusBlocks)

\* MaxFocusBlocks blocks added in the settings page and set to 07:00-08:00, every day
ManyFocusBlocks ==
  [b \in 1..MaxFocusBlocks |-> FocusBlock(HHMM(7, 0), HHMM(8, 0), 0..6)]

\* sequences without repetition of at most n elements of S
DistinctSeqs(S, n) ==
  {s \in UNION {[1..k -> S] : k \in 0..n} :
      \A i, j \in 1..Len(s) : i # j => s[i] # s[j]}

\* task lists of at most n tasks with the given shapes; a task's id is its position
TaskLists(Shapes, n) ==
  {[i \in 1..Len(s) |->
      Task(i, s[i].title, s[i].duration, s[i].priority, s[i].deadline, s[i].isCompleted)]
     : s \in UNION {[1..k -> Shapes] : k \in 0..n}}

Shape(title, duration, priority, deadline, isCompleted) ==
  [title |-> title, duration |-> duration, priority |-> priority,
   deadline |-> deadline, isCompleted |-> isCompleted]

Range(s, e) == [start |-> s, end |-> e]

\* collaborator answers
PlainText == <<"T", "h", "i", "s">>

ReasoningOk == [ok |-> TRUE, text |-> PlainText]

AnalysisFails == [ok |-> FALSE, analysis |-> << >>]

Collaborator(analysis, reasoning) == [analysis |-> analysis, reasoning |-> reasoning]

Scenario(tasks, existingEvents, preferences, dateRange, gemini) ==
  [tasks |-> tasks, existingEvents |-> existingEvents, preferences |-> preferences,
   dateRange |-> dateRange, gemini |-> gemini]

\* busy intervals around Monday: plain, overlapping, nested, before and after
\* working hours, and one that covers the whole of Monday
EventPool ==
  { TimeSlot(At(1, 10, 0), At(1, 11, 0)),
    TimeSlot(At(1, 10, 30), At(1, 12, 0)),
    TimeSlot(At(1, 10, 15), At(1, 10, 45)),
    TimeSlot(At(1, 8, 0), At(1, 9, 30)),
    TimeSlot(At(1, 16, 0), At(1, 18, 0)),
    TimeSlot(At(0, 8, 0), At(2, 18, 0)) }

\* Interval Aggregator scenarios
AggregatorScenarios ==
  { Scenario(ts, evs, Preferences(wh[1], wh[2], wd, DefaultBufferTime, DefaultFocusBlocks),
             rg, Collaborator(AnalysisFails, ReasoningOk))
      : ts \in TaskLists({ Shape({}, 30, "high", <<At(0, 14, 0)>>, FALSE),
                           Shape({}, 30, "high", <<At(0, 14, 0)>>, TRUE),
                           Shape({}, 30, "medium", << >>, FALSE) }, 1),
        evs \in DistinctSeqs(EventPool, MaxEvents),
        wh \in { <<HHMM(9, 0), HHMM(17, 0)>>, <<HHMM(9, 0), HHMM(9, 0)>> },
        wd \in { Weekdays, {} },
        rg \in { Range(At(1, 0, 0), At(1, 23, 59)),
                 Range(At(0, 0, 0), At(2, 23, 59)),
                 Range(At(1, 12, 0), At(1, 18, 0)) } }

\* Greedy Assigner scenarios
BufferTimes == {0, DefaultBufferTime, 45, 60}

GreedyShapes ==
  { Shape({}, 60, "medium", << >>, FALSE),
    Shape({}, 30, "medium", << >>, FALSE),
    Shape({}, 90, "medium", << >>, FALSE),
    Shape({}, 30, "high", <<At(1, 14, 0)>>, FALSE),
    Shape({}, 60, "high", <<At(1, 14, 0)>>, FALSE),
    Shape({}, 30, "low", <<At(1, 10, 0)>>, FALSE),
    Shape({}, 30, "medium", <<At(0, 14, 0)>>, FALSE),
    Shape({}, 45, "urgent", <<At(2, 9, 0)>>, FALSE) }

GreedyScenarios ==
  { Scenario(ts, evs, Preferences(HHMM(9, 0), HHMM(17, 0), Weekdays, bt, DefaultFocusBlocks),
             rg, Collaborator(AnalysisFails, ReasoningOk))
      : ts \in TaskLists(GreedyShapes, MaxTasks),
        evs \in { << >>,
                  <<TimeSlot(At(1, 10, 0), At(1, 11, 0))>>,
                  <<TimeSlot(At(1, 10, 0), At(1, 11, 0)),
                    TimeSlot(At(1, 8, 0), At(1, 9, 30))>>,
                  <<TimeSlot(At(1, 10, 30), At(1, 17, 0))>> },
        bt \in BufferTimes,
        rg \in { Range(At(1, 0, 0), At(1, 23, 59)),
                 Range(At(1, 12, 0), At(2, 23, 59)) } }

\* Slot Scorer scenarios: one task, every kind of score term
Analyses ==
  { [optimal_time_of_day |-> tod, focus_level_required |-> fl]
      : tod \in {"any", "early_morning", "morning", "late_morning", "afternoon", "evening"},
        fl \in {"medium", "high"} }

ScorerScenarios ==
  { Scenario(<<Task(1, ti, 30, pr, dl, FALSE)>>, evs,
             Preferences(wh[1], wh[2], Weekdays, DefaultBufferTime, fb),
             Range(At(1, 0, 0), At(2, 23, 59)),
             Collaborator([ok |-> TRUE, analysis |-> <<an>>], ReasoningOk))
      : ti \in { {}, {"breakfast"}, {"lunch"}, {"breakfast", "lunch", "dinner"} },
        pr \in {"high", "low"},
        dl \in { << >>, <<At(2, 14, 0)>>, <<At(2, 22, 0)>>, <<At(4, 10, 0)>>, <<At(7, 10, 0)>> },
        evs \in { << >>, <<TimeSlot(At(2, 13, 0), At(2, 14, 30))>> },
        wh \in { <<HHMM(9, 0), HHMM(17, 0)>>, <<HHMM(7, 0), HHMM(23, 0)>> },
        fb \in { << >>, DefaultFocusBlocks, ManyFocusBlocks },
        an \in Analyses }

\* narrative collaborator scenarios: what callGeminiAPI gives back for the
\* reasoning prompt: a text, a text with blanks around it, a text of blanks
\* only, or a failure (fetch error, malformed body, empty text)
ReasoningPadded == [ok |-> TRUE, text |-> <<" ", "O", "k", " ">>]

ReasoningBlank == [ok |-> TRUE, text |-> <<" ", " ">>]

ReasoningFails == [ok |-> FALSE, text |-> << >>]

NarrativeScenarios ==
  { Scenario(ts, << >>, DefaultPreferences, Range(At(1, 0, 0), At(1, 23, 59)),
             Collaborator(AnalysisFails, rs))
      : ts \in TaskLists({ Shape({}, 30, "medium", << >>, FALSE),
                           Shape({}, 30, "high", <<At(1, 14, 0)>>, FALSE) }, MaxTasks),
        rs \in { ReasoningOk, ReasoningPadded, ReasoningBlank, ReasoningFails } }

Scenarios ==
  AggregatorScenarios \cup GreedyScenarios \cup ScorerScenarios \cup NarrativeScenarios

(***************************************************************************)
(* The state machine: one call of generateScheduleSuggestions.             *)
(***************************************************************************)
VARIABLES
  tasks,            \* input: Task[]
  existingEvents,   \* input: CalendarEvent[] (busy intervals)
  preferences,      \* input: SchedulingPreferences
  dateRange,        \* input: { start, end }
  gemini,           \* what the Gemini collaborator answers during the call
  clock,            \* Date.now() of the call
  engine,           \* "none", or the implementation that was called
  pc,               \* "start", "placing" (loop of generateTaskPlacements), "done"
  sortedTasks,      \* sortTasksByPriority(analyzedTasks)
  idx,              \* position of the loop in sortedTasks
  availableSlots,   \* the free-window pool
  suggestions,      \* the suggestions committed so far
  optimization,     \* << >> or <<the ScheduleOptimization returned>>
  previous,         \* << >> or <<what an earlier call of the service returned>>
  providedRange,    \* the optional dateRange of generateSmartSchedule: << >> or <<range>>
  page,             \* the ScheduleX page: aiOptimization, its localStorage copy, calls in flight
  sync              \* a call of syncTasksToCalendar: connection, createEvent calls, outcome

vars == <<tasks, existingEvents, preferences, dateRange, gemini, clock, engine, pc,
          sortedTasks, idx, availableSlots, suggestions, optimization, previous,
          providedRange, page, sync>>

inputs == <<tasks, existingEvents, preferences, dateRange, gemini, clock>>

\* the state of the callers of the service: CalendarIntegrationManager and the page
caller == <<providedRange, page, sync>>

\* the page shows no schedule and has no call in flight
\* the page after mount with nothing saved: no optimization in the component
\* state or in localStorage, no call of generateSmartSchedule pending.
\* inFlight is the `tasks' the pending call's closure holds; computedFrom
\* records the list the stored optimization was computed from; nextId stands
\* for the fresh id of addTask.
IdlePage ==
  [aiOptimization |-> << >>, storage |-> << >>, isGeneratingSchedule |-> FALSE,
   inFlight |-> << >>, computedFrom |-> << >>, nextId |-> 1]

\* no createEvent call made, nothing returned
SyncState(connected, target) ==
  [connected |-> connected, target |-> target, calendarId |-> << >>,
   attempts |-> << >>, syncedEvents |-> << >>, errors |-> << >>, result |-> << >>]

CallerIdle ==
  /\ providedRange = << >>
  /\ page = IdlePage
  /\ sync = SyncState(FALSE, "primary")

\* a call is about to be made with the inputs of one of the scenarios
InitOf(scenarios) ==
  /\ \E sc \in scenarios :
       /\ tasks = sc.tasks
       /\ existingEvents = sc.existingEvents
       /\ preferences = sc.preferences
       /\ dateRange = sc.dateRange
       /\ gemini = sc.gemini
  /\ clock = 0
  /\ engine = "none"
  /\ pc = "start"
  /\ sortedTasks = << >>
  /\ idx = 1
  /\ availableSlots = << >>
  /\ suggestions = << >>
  /\ optimization = << >>
  /\ previous = << >>
  /\ CallerIdle

Init == InitOf(Scenarios)

\* backup engine, steps 1-4: analyzeTasks, findAvailableTimeSlots, and the sort
\* that opens generateTaskPlacements.  The statement binding allAvailableSlots
\* is absent from the file (lines 31-96 hold the body of the simple service);
\* the pool handed to generateTaskPlacements at line 99 is taken to be the
\* result of findAvailableTimeSlots, the only producer of free windows, called
\* with the parameters of its signature at lines 189-194.
StartGreedy ==
  /\ pc = "start"
  /\ engine' = "greedy"
  /\ availableSlots' = findAvailableTimeSlots(existingEvents, preferences, dateRange, tasks)
  /\ sortedTasks' = sortTasksByPriority(analyzeTasks(tasks, gemini.analysis))
  /\ idx' = 1
  /\ pc' = "placing"
  /\ UNCHANGED <<inputs, caller, suggestions, optimization, previous>>

\* what the loop does with the outcome of findOptimalSlotForTask
Commit(suggestion) ==
  IF suggestion = << >>
  THEN UNCHANGED <<suggestions, availableSlots>>
  ELSE /\ suggestions' = Append(suggestions, suggestion[1])
       /\ availableSlots' = removeUsedSlot(availableSlots, suggestion[1].suggestedSlot)

\* one iteration of the loop of generateTaskPlacements
PlaceTask ==
  /\ pc = "placing"
  /\ idx <= Len(sortedTasks)
  /\ Commit(findOptimalSlotForTask(sortedTasks[idx], availableSlots, preferences,
                                   gemini.reasoning, clock))
  /\ idx' = idx + 1
  /\ UNCHANGED <<inputs, caller, engine, pc, sortedTasks, optimization, previous>>

\* the loop is over: optimizeSchedule builds the result
OptimizeSchedule ==
  /\ pc = "placing"
  /\ idx > Len(sortedTasks)
  /\ optimization' = <<optimizeSchedule(suggestions, dateRange)>>
  /\ pc' = "done"
  /\ UNCHANGED <<inputs, caller, engine, sortedTasks, idx, availableSlots, suggestions, previous>>

\* the live service: the whole call
SimpleGenerate ==
  /\ pc = "start"
  /\ engine' = "simple"
  /\ suggestions' = simpleSuggestions(tasks, clock)
  /\ optimization' = <<simpleOptimization(tasks, clock)>>
  /\ pc' = "done"
  /\ UNCHANGED <<inputs, caller, sortedTasks, idx, availableSlots, previous>>

Next ==
  \/ StartGreedy
  \/ PlaceTask
  \/ OptimizeSchedule
  \/ SimpleGenerate

Spec == Init /\ [][Next]_vars

(***************************************************************************)
(* The service called a second time with the same inputs.                  *)
(***************************************************************************)
RerunScenarios ==
  { Scenario(ts, evs, Preferences(HHMM(9, 0), HHMM(17, 0), Weekdays, bt, DefaultFocusBlocks),
             Range(At(1, 0, 0), At(2, 23, 59)),
             Collaborator(AnalysisFails, ReasoningOk))
      : ts \in TaskLists({ Shape({}, 60, "medium", << >>, FALSE),
                           Shape({}, 30, "high", <<At(1, 14, 0)>>, FALSE),
                           Shape({}, 30, "low", <<At(2, 10, 0)>>, FALSE),
                           Shape({}, 90, "urgent", << >>, FALSE) }, MaxTasks),
        evs \in { << >>, <<TimeSlot(At(1, 10, 0), At(1, 11, 0))>> },
        bt \in {0, DefaultBufferTime} }

RerunInit == InitOf(RerunScenarios)

\* the caller keeps the result and calls the same service again, at the same
\* or at a later Date.now(), with the inputs unchanged
CallAgain ==
  /\ pc = "done"
  /\ previous = << >>
  /\ previous' = <<[engine |-> engine, result |-> optimization[1]]>>
  /\ \E later \in {clock, clock + 1} : clock' = later
  /\ engine' = "none"
  /\ pc' = "start"
  /\ sortedTasks' = << >>
  /\ idx' = 1
  /\ availableSlots' = << >>
  /\ suggestions' = << >>
  /\ optimization' = << >>
  /\ UNCHANGED <<tasks, existingEvents, preferences, dateRange, gemini, caller>>

RerunNext ==
  \/ StartGreedy
  \/ PlaceTask
  \/ OptimizeSchedule
  \/ SimpleGenerate
  \/ CallAgain

RerunSpec == RerunInit /\ [][RerunNext]_vars

(***************************************************************************)
(* The private helpers applied on their own: optimizeSchedule (Conflict    *)
(* Detector and Workload Analyzer), sortTasksByPriority, removeUsedSlot.   *)
(***************************************************************************)
MaxSuggestions == 2
MaxSortTasks == 3
MaxPoolWindows == 2

\* a suggestion for task number i, sized to the task as both services do
Suggestion(i, start, duration, deadline, confidence) ==
  LET task == analyzeTasks(<<Task(i, {}, duration, "medium", deadline, FALSE)>>,
                           AnalysisFails)[1]
  IN  [id |-> <<i, 0>>,
       task |-> task,
       suggestedSlot |-> suggestedSlotOf(TimeSlot(start, start), task),
       confidence |-> confidence,
       reasoning |-> PlainText,
       alternatives |-> << >>]

\* suggestion lists: windows that overlap, touch or are apart, that end before,
\* at or after the deadline, confident or not, on days inside and outside the
\* range, with day totals on both sides of 2, 4 and 6 hours
SuggestionShapes ==
  { [start |-> st, duration |-> du, deadline |-> dc[1], confidence |-> dc[2]]
      : st \in { At(1, 9, 0), At(1, 9, 30), At(2, 9, 0) },
        du \in { 30, 120, 250, 370 },
        dc \in { << << >>, 100 >>, << <<At(1, 10, 0)>>, 100 >>, << << >>, 20 >> } }

SuggestionLists ==
  {[i \in 1..Len(s) |->
      Suggestion(i, s[i].start, s[i].duration, s[i].deadline, s[i].confidence)]
     : s \in UNION {[1..k -> SuggestionShapes] : k \in 0..MaxSuggestions}}

SortShapes ==
  { Shape({}, 30, pr, dl, FALSE)
      : pr \in {"urgent", "high", "medium", "low"},
        dl \in { << >>, <<At(1, 14, 0)>>, <<At(2, 9, 0)>> } }

PoolWindows ==
  { TimeSlot(At(1, 9, 0), At(1, 17, 0)),
    TimeSlot(At(1, 9, 0), At(1, 10, 0)),
    TimeSlot(At(1, 10, 0), At(1, 12, 0)),
    TimeSlot(At(1, 13, 0), At(1, 17, 0)) }

Pools == UNION {[1..k -> PoolWindows] : k \in 0..MaxPoolWindows}

UsedSlots ==
  { <<Suggestion(1, st, du, << >>, 100)>>
      : st \in { At(1, 9, 0), At(1, 9, 30), At(1, 10, 0), At(1, 16, 30) },
        du \in { 30, 60 } }

HelperCall(helper, ts, sgs, pool, rg) ==
  [helper |-> helper, tasks |-> ts, suggestions |-> sgs, availableSlots |-> pool,
   dateRange |-> rg]

HelperCalls ==
  { HelperCall("optimizeSchedule", << >>, sgs, << >>, rg)
      : sgs \in SuggestionLists,
        rg \in { Range(At(1, 0, 0), At(1, 23, 59)), Range(At(1, 12, 0), At(2, 8, 0)) } }
  \cup
  { HelperCall("sortTasksByPriority", ts, << >>, << >>, Range(At(1, 0, 0), At(1, 23, 59)))
      : ts \in TaskLists(SortShapes, MaxSortTasks) }
  \cup
  { HelperCall("removeUsedSlot", << >>, used, pool, Range(At(1, 0, 0), At(1, 23, 59)))
      : used \in UsedSlots, pool \in Pools }

\* engine names the helper that is about to be applied
HelperInit ==
  /\ \E c \in HelperCalls :
       /\ engine = c.helper
       /\ tasks = c.tasks
       /\ suggestions = c.suggestions
       /\ availableSlots = c.availableSlots
       /\ dateRange = c.dateRange
  /\ existingEvents = << >>
  /\ preferences = DefaultPreferences
  /\ gemini = Collaborator(AnalysisFails, ReasoningOk)
  /\ clock = 0
  /\ pc = "start"
  /\ sortedTasks = << >>
  /\ idx = 1
  /\ optimization = << >>
  /\ previous = << >>
  /\ CallerIdle

CallOptimizeSchedule ==
  /\ engine = "optimizeSchedule"
  /\ pc = "start"
  /\ optimization' = <<optimizeSchedule(suggestions, dateRange)>>
  /\ pc' = "done"
  /\ UNCHANGED <<inputs, caller, engine, sortedTasks, idx, availableSlots, suggestions, previous>>

CallSortTasksByPriority ==
  /\ engine = "sortTasksByPriority"
  /\ pc = "start"
  /\ sortedTasks' = sortTasksByPriority(analyzeTasks(tasks, gemini.analysis))
  /\ pc' = "done"
  /\ UNCHANGED <<inputs, caller, engine, idx, availableSlots, suggestions, optimization, previous>>

CallRemoveUsedSlot ==
  /\ engine = "removeUsedSlot"
  /\ pc = "start"
  /\ availableSlots' = removeUsedSlot(availableSlots, suggestions[1].suggestedSlot)
  /\ pc' = "done"
  /\ UNCHANGED <<inputs, caller, engine, sortedTasks, idx, suggestions, optimization, previous>>

HelperNext ==
  \/ CallOptimizeSchedule
  \/ CallSortTasksByPriority
  \/ CallRemoveUsedSlot

HelperSpec == HelperInit /\ [][HelperNext]_vars

(***************************************************************************)
(* CalendarIntegrationManager: calculateOptimalDateRange and               *)
(* syncTasksToCalendar.  GoogleCalendarService is a collaborator: each of  *)
(* its calls (getCalendars, createEvent) either answers or throws.         *)
(***************************************************************************)
\* the days the default range runs ahead of today
DefaultRangeDays == 7

\* the largest element of a non-empty set of times
Latest(times) == CHOOSE t \in times : \A u \in times : u <= t

calculateOptimalDateRange(ts, provided, now) ==
  IF provided # << >> THEN provided[1]
  ELSE LET today == startOfDay(now)
           defaultEnd == endOfDay(addDays(today, DefaultRangeDays))
           withDeadline == {i \in 1..Len(ts) :
                              HasDeadline(ts[i]) /\ ~ts[i].isCompleted}
           \* latestDeadline starts at defaultEnd and moves only to a later deadline
           latestDeadline == Latest({defaultEnd} \cup {Deadline(ts[i]) : i \in withDeadline})
       IN  IF withDeadline # {}
           THEN Range(today, endOfDay(latestDeadline))
           ELSE Range(today, defaultEnd)

\* the loop's test of a suggestion it does not create
isLowConfidence_atThreshold(suggestion) == suggestion.confidence <= 30

isLowConfidence(suggestion) == suggestion.confidence < 30

\* an entry of the errors array: what failed, and for which task (0: none)
SyncError(kind, taskId) == [kind |-> kind, task |-> taskId]

SyncResult(success, syncedEvents, errors) ==
  [success |-> success, syncedEvents |-> syncedEvents, errors |-> errors]

\* tasks due before, on and after the last day of the default range, open or
\* completed
RangeShapes ==
  { Shape({}, 30, "medium", dl, done)
      : dl \in { << >>, <<At(2, 14, 0)>>, <<At(8, 23, 0)>>, <<At(9, 10, 0)>> },
        done \in BOOLEAN }

\* suggestions below, at and above the confidence of 0.3
SyncSuggestionLists ==
  {[i \in 1..Len(s) |-> Suggestion(i, At(1, 9, 0), 30, << >>, s[i])]
     : s \in UNION {[1..k -> {20, 30, 100}] : k \in 0..MaxSuggestions}}

ManagerCall(method, ts, provided, now, sgs, connected, target) ==
  [method |-> method, tasks |-> ts, providedRange |-> provided, clock |-> now,
   suggestions |-> sgs, connected |-> connected, target |-> target]

ManagerCalls ==
  { ManagerCall("calculateOptimalDateRange", ts, provided, now, << >>, FALSE, "primary")
      : ts \in TaskLists(RangeShapes, MaxTasks),
        provided \in { << >>, <<Range(At(3, 9, 0), At(4, 17, 0))>> },
        now \in { At(1, 0, 0), At(1, 10, 30) } }
  \cup
  { ManagerCall("syncTasksToCalendar", << >>, << >>, At(1, 0, 0), sgs, connected, target)
      : sgs \in SyncSuggestionLists,
        connected \in BOOLEAN,
        target \in { "primary", "work" } }

\* engine names the method that is about to be called
ManagerInit ==
  /\ \E c \in ManagerCalls :
       /\ engine = c.method
       /\ tasks = c.tasks
       /\ providedRange = c.providedRange
       /\ clock = c.clock
       /\ suggestions = c.suggestions
       /\ sync = SyncState(c.connected, c.target)
  /\ existingEvents = << >>
  /\ preferences = DefaultPreferences
  /\ dateRange = Range(0, 0)
  /\ gemini = Collaborator(AnalysisFails, ReasoningOk)
  /\ pc = "start"
  /\ sortedTasks = << >>
  /\ idx = 1
  /\ availableSlots = << >>
  /\ optimization = << >>
  /\ previous = << >>
  /\ page = IdlePage

\* generateSmartSchedule, its first statement: the range of the call
CallCalculateOptimalDateRange ==
  /\ engine = "calculateOptimalDateRange"
  /\ pc = "start"
  /\ dateRange' = calculateOptimalDateRange(tasks, providedRange, clock)
  /\ pc' = "done"
  /\ UNCHANGED <<tasks, existingEvents, preferences, gemini, clock, caller, engine,
                 sortedTasks, idx, availableSlots, suggestions, optimization, previous>>

\* syncTasksToCalendar up to its loop: the connection check, and getCalendars
\* when the target is the primary calendar.  calendarId is `primaryCalendar?.id
\* || 'primary'' and so never empty once getCalendars answered: the return of
\* 'No calendar available for syncing' cannot be taken.
SyncStart ==
  /\ engine = "syncTasksToCalendar"
  /\ pc = "start"
  /\ IF ~sync.connected
     THEN /\ sync' = [sync EXCEPT !.result =
                        <<SyncResult(FALSE, << >>, <<SyncError("not connected", 0)>>)>>]
          /\ pc' = "done"
     ELSE \E calendarsListed \in (IF sync.target = "primary" THEN BOOLEAN ELSE {TRUE}) :
            IF calendarsListed
            THEN /\ pc' = "syncing"
                 /\ sync' = [sync EXCEPT !.calendarId = <<sync.target>>]
            ELSE /\ sync' = [sync EXCEPT !.result =
                               <<SyncResult(FALSE, sync.syncedEvents,
                                            <<SyncError("sync operation failed", 0)>>)>>]
                 /\ pc' = "done"
  /\ idx' = 1
  /\ UNCHANGED <<inputs, providedRange, page, engine, sortedTasks, availableSlots,
                 suggestions, optimization, previous>>

\* one iteration of the loop of syncTasksToCalendar
SyncSuggestion ==
  /\ engine = "syncTasksToCalendar"
  /\ pc = "syncing"
  /\ idx <= Len(suggestions)
  /\ IF isLowConfidence(suggestions[idx])
     THEN UNCHANGED sync
     ELSE \E created \in BOOLEAN :
            sync' = [sync EXCEPT
                       !.attempts = Append(@, suggestions[idx].task.id),
                       !.syncedEvents =
                          IF created THEN Append(@, suggestions[idx].task.id) ELSE @,
                       !.errors =
                          IF created THEN @
                          ELSE Append(@, SyncError("createEvent", suggestions[idx].task.id))]
  /\ idx' = idx + 1
  /\ UNCHANGED <<inputs, providedRange, page, engine, pc, sortedTasks, availableSlots,
                 suggestions, optimization, previous>>

\* the loop is over: the result
SyncReturn ==
  /\ engine = "syncTasksToCalendar"
  /\ pc = "syncing"
  /\ idx > Len(suggestions)
  /\ sync' = [sync EXCEPT !.result =
                 <<SyncResult(sync.errors = << >>, sync.syncedEvents, sync.errors)>>]
  /\ pc' = "done"
  /\ UNCHANGED <<inputs, providedRange, page, engine, sortedTasks, idx, availableSlots,
                 suggestions, optimization, previous>>

ManagerNext ==
  \/ CallCalculateOptimalDateRange
  \/ SyncStart
  \/ SyncSuggestion
  \/ SyncReturn

ManagerSpec == ManagerInit /\ [][ManagerNext]_vars

(***************************************************************************)
(* The ScheduleX page: the task handlers and generateAISchedule, whose     *)
(* await of generateSmartSchedule lets the handlers run in between.  The   *)
(* manager's aiService is the live service.  A provider is connected, and  *)
(* the call is started from the button, disabled while a call is pending.  *)
(***************************************************************************)
MaxPageTasks == 2

MaxTaskIds == 3

\* what the task form lets the user enter or change
PageShapes ==
  { Shape({}, 30, "medium", dl, done)
      : dl \in { << >>, <<At(1, 14, 0)>> }, done \in BOOLEAN }

RemoveAt(s, i) == [k \in 1..(Len(s) - 1) |-> IF k < i THEN s[k] ELSE s[k + 1]]

isOpen(task) == ~task.isCompleted

\* setAiOptimization(null); clearAIOptimizationFromStorage()
Cleared(p) == [p EXCEPT !.aiOptimization = << >>, !.storage = << >>, !.computedFrom = << >>]

PageInit ==
  /\ engine = "page"
  /\ pc = "idle"
  /\ tasks = << >>
  /\ page = IdlePage
  /\ clock \in { At(1, 10, 30) }
  /\ existingEvents = << >>
  /\ preferences = DefaultPreferences
  /\ dateRange = Range(0, 0)
  /\ gemini = Collaborator(AnalysisFails, ReasoningOk)
  /\ sortedTasks = << >>
  /\ idx = 1
  /\ availableSlots = << >>
  /\ suggestions = << >>
  /\ optimization = << >>
  /\ previous = << >>
  /\ providedRange = << >>
  /\ sync = SyncState(FALSE, "primary")

PageUnchanged ==
  UNCHANGED <<existingEvents, preferences, dateRange, gemini, clock, providedRange, sync,
              engine, pc, sortedTasks, idx, availableSlots, suggestions, optimization,
              previous>>

addTask ==
  /\ engine = "page"
  /\ Len(tasks) < MaxPageTasks
  /\ page.nextId <= MaxTaskIds
  /\ \E newTask \in PageShapes :
       tasks' = Append(tasks, Task(page.nextId, newTask.title, newTask.duration,
                                   newTask.priority, newTask.deadline,
                                   newTask.isCompleted))
  /\ page' = [Cleared(page) EXCEPT !.nextId = @ + 1]
  /\ PageUnchanged

updateTask ==
  /\ engine = "page"
  /\ \E i \in 1..Len(tasks), updates \in PageShapes :
       tasks' = [tasks EXCEPT ![i] = Task(tasks[i].id, updates.title, updates.duration,
                                          updates.priority, updates.deadline,
                                          updates.isCompleted)]
  /\ page' = Cleared(page)
  /\ PageUnchanged

deleteTask ==
  /\ engine = "page"
  /\ \E i \in 1..Len(tasks) : tasks' = RemoveAt(tasks, i)
  /\ page' = Cleared(page)
  /\ PageUnchanged

\* generateAISchedule up to its await
generateAISchedule ==
  /\ engine = "page"
  /\ Len(tasks) # 0
  /\ ~page.isGeneratingSchedule
  /\ page' = [page EXCEPT !.isGeneratingSchedule = TRUE, !.inFlight = <<tasks>>]
  /\ UNCHANGED tasks
  /\ PageUnchanged

\* the promise resolves: the rest of the try block, and finally
generateAISchedule_resolved ==
  /\ engine = "page"
  /\ page.inFlight # << >>
  /\ LET result == simpleOptimization(SelectSeq(page.inFlight[1], isOpen), clock)
     IN  page' = [page EXCEPT !.aiOptimization = <<result>>,
                              !.storage = <<result>>,
                              !.computedFrom = <<page.inFlight[1]>>,
                              !.inFlight = << >>,
                              !.isGeneratingSchedule = FALSE]
  /\ UNCHANGED tasks
  /\ PageUnchanged

\* the promise rejects: the catch block, and finally
generateAISchedule_rejected ==
  /\ engine = "page"
  /\ page.inFlight # << >>
  /\ page' = [page EXCEPT !.inFlight = << >>, !.isGeneratingSchedule = FALSE]
  /\ UNCHANGED tasks
  /\ PageUnchanged

PageNext ==
  \/ addTask
  \/ updateTask
  \/ deleteTask
  \/ generateAISchedule
  \/ generateAISchedule_resolved
  \/ generateAISchedule_rejected

PageSpec == PageInit /\ [][PageNext]_vars

(***************************************************************************)
(* Properties.                                                             *)
(***************************************************************************)
Greedy == engine = "greedy"

GreedyDone == engine = "greedy" /\ pc = "done"

\* the pool as findAvailableTimeSlots returned it: no commit has touched it yet
FreshPool == engine = "greedy" /\ pc = "placing" /\ idx = 1

SuggestedIds == {suggestions[i].task.id : i \in 1..Len(suggestions)}

UnscheduledIds ==
  {optimization[1].unscheduledTasks[i] : i \in 1..Len(optimization[1].unscheduledTasks)}

\* C1: every suggestion of either service spans exactly its task's duration:
\* suggestedSlot.end - suggestedSlot.start = task.duration.
C1_WindowLengthIsDuration ==
  \A i \in 1..Len(suggestions) :
     suggestions[i].suggestedSlot.end - suggestions[i].suggestedSlot.start
       = suggestions[i].task.duration

\* the greedy engine committed a task into a candidate longer than the task
C1_Witness ==
  /\ GreedyDone
  /\ \E i \in 1..Len(suggestions) :
       /\ suggestions[i].task.duration = 30
       /\ suggestions[i].suggestedSlot.start = At(1, 14, 0)

\* C2: in the greedy engine no two committed assignments overlap in time.
C2_NoOverlap ==
  Greedy =>
    \A i, j \in 1..Len(suggestions) :
       i # j =>
         ~(/\ suggestions[i].suggestedSlot.start < suggestions[j].suggestedSlot.end
           /\ suggestions[j].suggestedSlot.start < suggestions[i].suggestedSlot.end)

\* two tasks were committed on the same day, the second into a remainder of a split
C2_Witness ==
  /\ Greedy
  /\ Len(suggestions) = 2
  /\ formatDay(suggestions[1].suggestedSlot.start)
       = formatDay(suggestions[2].suggestedSlot.start)
  /\ suggestions[2].suggestedSlot.start = suggestions[1].suggestedSlot.end

\* C3: when the greedy engine commits an assignment, its window lies inside one
\* window of the pool as it is at that moment (removeUsedSlot's index is not -1).
C3_CommitInsideFreeWindow ==
  [][ (Greedy /\ Len(suggestions') = Len(suggestions) + 1) =>
        \E k \in 1..Len(availableSlots) :
           /\ availableSlots[k].start <= suggestions'[Len(suggestions')].suggestedSlot.start
           /\ suggestions'[Len(suggestions')].suggestedSlot.end <= availableSlots[k].end
    ]_vars

\* a commit took the middle of a window: both remainders went back to the pool
C3_Witness ==
  /\ Greedy
  /\ Len(suggestions) >= 1
  /\ \E a, b \in 1..Len(availableSlots) :
       /\ availableSlots[a].end = suggestions[Len(suggestions)].suggestedSlot.start
       /\ availableSlots[b].start = suggestions[Len(suggestions)].suggestedSlot.end

\* C4: every input task that got no assignment is listed in unscheduledTasks and
\* counted in totalTasks of the greedy engine's result.
C4_UnassignedRecorded ==
  GreedyDone =>
    /\ optimization[1].totalTasks = Len(tasks)
    /\ \A i \in 1..Len(tasks) :
         tasks[i].id \notin SuggestedIds => tasks[i].id \in UnscheduledIds

\* the working window [workStart, workEnd] of the day of time t
WorkStartOf(t) == parseTimeToDate(t, preferences.workingHours.start)

WorkEndOf(t) == parseTimeToDate(t, preferences.workingHours.end)

\* C5: no free window of the Interval Aggregator intersects a busy interval, and
\* every free window lies inside the working hours of its day.
C5_FreeWindowsAvoidBusy ==
  FreshPool =>
    \A k \in 1..Len(availableSlots) :
       /\ \A e \in 1..Len(existingEvents) :
             ~(/\ availableSlots[k].start < existingEvents[e].end
               /\ existingEvents[e].start < availableSlots[k].end)
       /\ WorkStartOf(availableSlots[k].start) <= availableSlots[k].start
       /\ availableSlots[k].end <= WorkEndOf(availableSlots[k].start)

\* the days of the planning range, as day numbers
DaysOfRange == formatDay(dateRange.start)..formatDay(dateRange.end)

HasWindowOn(day) ==
  \E k \in 1..Len(availableSlots) : formatDay(availableSlots[k].start) = day

\* no busy interval intersects the working window of the day
WorkWindowFree(day) ==
  \A e \in 1..Len(existingEvents) :
     ~(/\ WorkStartOf(day * MinutesPerDay) < existingEvents[e].end
       /\ existingEvents[e].start < WorkEndOf(day * MinutesPerDay))

IsWorkingDay(day) == day % 7 \in preferences.workingDays

\* deadline day of some task with a deadline
IsDeadlineDayOfAnyTask(day) ==
  \E i \in 1..Len(tasks) :
     HasDeadline(tasks[i]) /\ formatDay(Deadline(tasks[i])) = day

\* deadline day of some task with a deadline that is not completed
IsDeadlineDayOfOpenTask(day) ==
  \E i \in 1..Len(tasks) :
     /\ HasDeadline(tasks[i])
     /\ ~tasks[i].isCompleted
     /\ formatDay(Deadline(tasks[i])) = day

Placing == engine = "greedy" /\ pc = "placing" /\ idx <= Len(sortedTasks)

\* C7: a surviving candidate that starts at the task's deadline (within 1 minute)
\* scores strictly higher than every other surviving candidate, so it is the one
\* committed.
C7_ExactDeadlineWins ==
  (Placing /\ HasDeadline(sortedTasks[idx])) =>
    LET scored == scoredSlotsFor(sortedTasks[idx], availableSlots, preferences)
    IN  \A k \in 1..Len(scored) :
          Abs(scored[k].slot.start - Deadline(sortedTasks[idx])) < 1 =>
            \A m \in 1..Len(scored) : m # k => scored[m].score < scored[k].score

\* the scenario of C8: one open 30-minute high-priority task due at 14:00 of a
\* day of the range, no busy intervals, working hours 09:00-17:00
C8_Scenario ==
  /\ Len(tasks) = 1
  /\ ~tasks[1].isCompleted
  /\ tasks[1].duration = 30
  /\ tasks[1].priority = "high"
  /\ HasDeadline(tasks[1])
  /\ Deadline(tasks[1]) % MinutesPerDay = 14 * 60
  /\ formatDay(Deadline(tasks[1])) \in DaysOfRange
  /\ existingEvents = << >>
  /\ preferences.workingHours = [start |-> HHMM(9, 0), end |-> HHMM(17, 0)]
  /\ preferences.bufferTime <= 30

C9_Scenario ==
  /\ Len(tasks) = 2
  /\ \A i \in 1..2 : tasks[i].duration = 60 /\ ~HasDeadline(tasks[i])
  /\ existingEvents = << >>
  /\ preferences.workingHours = [start |-> HHMM(9, 0), end |-> HHMM(17, 0)]
  /\ formatDay(dateRange.start) = formatDay(dateRange.end)
  /\ IsWorkingDay(formatDay(dateRange.start))
  /\ preferences.bufferTime \in 0..60

\* C9: in that scenario, for every bufferTime from 0 to 60, both tasks are
\* assigned to windows that do not overlap and the day's workload entry has
\* taskCount 2, 2 hours and intensity light.
C9_TwoTasksScenario ==
  (GreedyDone /\ C9_Scenario) =>
    /\ Len(optimization[1].suggestions) = 2
    /\ ~doTimesSlotsOverlap(optimization[1].suggestions[1].suggestedSlot,
                            optimization[1].suggestions[2].suggestedSlot)
    /\ Len(optimization[1].workloadBalance) = 1
    /\ optimization[1].workloadBalance[1].taskCount = 2
    /\ optimization[1].workloadBalance[1].minutes = 2 * 60
    /\ optimization[1].workloadBalance[1].intensity = "light"

\* C10: a task whose deadline is before range.start gets no assignment and is
\* listed in unscheduledTasks.
C10_PastDeadlineUnassigned ==
  GreedyDone =>
    \A i \in 1..Len(tasks) :
       (HasDeadline(tasks[i]) /\ Deadline(tasks[i]) < dateRange.start) =>
          /\ tasks[i].id \notin SuggestedIds
          /\ tasks[i].id \in UnscheduledIds

(***************************************************************************)
(* Conflict Detector.                                                      *)
(***************************************************************************)
OptimizeScheduleDone == engine = "optimizeSchedule" /\ pc = "done"

\* how many entries of the conflict list equal entry
ConflictCount(entry) ==
  Cardinality({k \in 1..Len(optimization[1].conflicts) :
                 optimization[1].conflicts[k] = entry})

OverlapEntry(i, j) ==
  [type |-> "overlap", severity |-> "high",
   affectedTasks |-> <<suggestions[i].task.id, suggestions[j].task.id>>]

DeadlineEntry(i) ==
  [type |-> "deadline_conflict", severity |-> "high",
   affectedTasks |-> <<suggestions[i].task.id>>]

OverlappingPairs ==
  {p \in (1..Len(suggestions)) \X (1..Len(suggestions)) :
     /\ p[1] < p[2]
     /\ suggestions[p[1]].suggestedSlot.start < suggestions[p[2]].suggestedSlot.end
     /\ suggestions[p[2]].suggestedSlot.start < suggestions[p[1]].suggestedSlot.end}

LateSuggestions ==
  {i \in 1..Len(suggestions) :
     /\ suggestions[i].task.deadline # << >>
     /\ suggestions[i].suggestedSlot.end > suggestions[i].task.deadline[1]}

\* C11: the conflict list holds exactly one high-severity overlap entry for
\* each pair of suggestions with start1 < end2 and start2 < end1 (touching
\* windows give none), exactly one high-severity deadline_conflict entry for
\* each suggestion that ends strictly after its task's deadline, and nothing
\* else.
C11_ConflictsExact ==
  OptimizeScheduleDone =>
    /\ \A i, j \in 1..Len(suggestions) :
         i < j => ConflictCount(OverlapEntry(i, j))
                    = (IF <<i, j>> \in OverlappingPairs THEN 1 ELSE 0)
    /\ \A i \in 1..Len(suggestions) :
         ConflictCount(DeadlineEntry(i)) = (IF i \in LateSuggestions THEN 1 ELSE 0)
    /\ Len(optimization[1].conflicts)
         = Cardinality(OverlappingPairs) + Cardinality(LateSuggestions)

\* the detector reported an overlap and a deadline conflict for two
\* suggestions, the second of which ends exactly at its deadline
C11_Witness ==
  /\ OptimizeScheduleDone
  /\ Len(suggestions) = 2
  /\ OverlappingPairs # {}
  /\ LateSuggestions = {1}
  /\ suggestions[2].task.deadline = <<suggestions[2].suggestedSlot.end>>
  /\ Len(optimization[1].conflicts) = 2

(***************************************************************************)
(* Confidence.                                                             *)
(***************************************************************************)
\* C12: every suggestion's confidence lies between 0 and 1 (0 and 100
\* hundredths), also when the score of the chosen candidate is negative.
C12_ConfidenceInUnitInterval ==
  \A i \in 1..Len(suggestions) :
     suggestions[i].confidence >= 0 /\ suggestions[i].confidence <= 100

(***************************************************************************)
(* Calling the service twice.                                              *)
(***************************************************************************)
\* C13: a second call of the same service with the same tasks, busy
\* intervals, preferences and range returns the result of the first call
\* unchanged (suggestion ids, windows, confidence, alternatives, unscheduled
\* list, conflicts, workload), whatever Date.now() is at the second call.
C13_SameInputsSameResult ==
  (pc = "done" /\ previous # << >> /\ previous[1].engine = engine) =>
    optimization[1] = previous[1].result

(***************************************************************************)
(* Input validation.                                                       *)
(***************************************************************************)
\* a task with duration <= 0, a busy interval or a range with end <= start,
\* or no working day together with no task deadline
InvalidInput ==
  \/ \E i \in 1..Len(tasks) : tasks[i].duration <= 0
  \/ \E i \in 1..Len(existingEvents) : existingEvents[i].end <= existingEvents[i].start
  \/ dateRange.end <= dateRange.start
  \/ /\ preferences.workingDays = {}
     /\ \A i \in 1..Len(tasks) : tasks[i].deadline = << >>

\* C14: a call with invalid input never returns a result and never commits a
\* suggestion: it ends with a validation error before any scoring.
C14_InvalidInputRejected ==
  InvalidInput => (pc # "done" /\ suggestions = << >>)

(***************************************************************************)
(* Reasoning text.                                                         *)
(***************************************************************************)
\* C15: the reasoning of every committed suggestion is a non-empty string,
\* whether the narrative collaborator fails, answers with text, or answers
\* with blanks only.
C15_ReasoningNeverEmpty ==
  \A i \in 1..Len(suggestions) : suggestions[i].reasoning # << >>

(***************************************************************************)
(* Task Prioritizer.                                                       *)
(***************************************************************************)
SortDone == engine = "sortTasksByPriority" /\ pc = "done"

PriorityWeight(task) ==
  CASE task.priority = "urgent" -> 4
    [] task.priority = "high" -> 3
    [] task.priority = "medium" -> 2
    [] task.priority = "low" -> 1

\* a has to come before b
MustPrecede(a, b) ==
  \/ PriorityWeight(a) > PriorityWeight(b)
  \/ /\ PriorityWeight(a) = PriorityWeight(b)
     /\ a.deadline # << >>
     /\ b.deadline # << >>
     /\ a.deadline[1] < b.deadline[1]
  \/ /\ PriorityWeight(a) = PriorityWeight(b)
     /\ a.deadline # << >>
     /\ b.deadline = << >>

\* C16: sortTasksByPriority returns a permutation of its input in which a
\* comes before b whenever a has the higher priority weight, or the weights
\* are equal and a's deadline is earlier, or the weights are equal and only a
\* has a deadline.
C16_PrioritizerOrder ==
  SortDone =>
    /\ Len(sortedTasks) = Len(tasks)
    /\ \E perm \in [1..Len(tasks) -> 1..Len(tasks)] :
         /\ \A i, j \in 1..Len(tasks) : i # j => perm[i] # perm[j]
         /\ \A i \in 1..Len(tasks) :
              /\ sortedTasks[i].id = tasks[perm[i]].id
              /\ sortedTasks[i].priority = tasks[perm[i]].priority
              /\ sortedTasks[i].deadline = tasks[perm[i]].deadline
              /\ sortedTasks[i].duration = tasks[perm[i]].duration
    /\ \A i, j \in 1..Len(sortedTasks) :
         MustPrecede(sortedTasks[i], sortedTasks[j]) => i < j

\* three tasks came in in the wrong order: the last one has the highest
\* priority and, of the two others of equal priority, the one without a
\* deadline came first
C16_Witness ==
  /\ SortDone
  /\ Len(tasks) = 3
  /\ MustPrecede(tasks[3], tasks[1])
  /\ PriorityWeight(tasks[1]) = PriorityWeight(tasks[2])
  /\ tasks[1].deadline = << >>
  /\ tasks[2].deadline # << >>
  /\ sortedTasks[1].id = 3
  /\ sortedTasks[2].id = 2
  /\ sortedTasks[3].id = 1

(***************************************************************************)
(* Ties between candidates.                                                *)
(***************************************************************************)
\* the scored candidates of the task the loop is at
ScoredNow == scoredSlotsFor(sortedTasks[idx], availableSlots, preferences)

\* the candidates of scored with the highest score
TopScored(scored) ==
  {k \in 1..Len(scored) : \A m \in 1..Len(scored) : scored[m].score <= scored[k].score}

\* C17: of the candidates that share the highest score the loop commits the
\* one with the earliest start, for the first task and for the tasks placed
\* after earlier commits have split windows of the pool.
C17_TieGoesToEarliestStart ==
  [][(pc = "placing" /\ Len(suggestions') = Len(suggestions) + 1) =>
       \A k \in TopScored(ScoredNow) :
          suggestions'[Len(suggestions')].suggestedSlot.start <= ScoredNow[k].slot.start]_vars

(***************************************************************************)
(* Splitting a window around a used slot.                                  *)
(***************************************************************************)
\* how many windows of pool equal window
WindowCount(pool, window) ==
  Cardinality({k \in 1..Len(pool) : pool[k] = window})

\* the positions of the windows of pool that contain used
Containing(pool, used) ==
  {k \in 1..Len(pool) : pool[k].start <= used.start /\ used.end <= pool[k].end}

\* 1 when the remainder [from, to] is non-empty and equal to window
OneIfRemainder(from, to, window) ==
  IF from < to /\ window.start = from /\ window.end = to THEN 1 ELSE 0

\* C18: removeUsedSlot takes the first window W that contains the used slot U
\* out of the pool and puts back [W.start, U.start] and [U.end, W.end], each
\* only when non-empty (so that U and the remainders tile W exactly); every
\* other window of the pool stays as it was.
C18_SplitAroundUsedSlot ==
  [][(engine = "removeUsedSlot" /\ pc = "start" /\ pc' = "done"
        /\ Containing(availableSlots, suggestions[1].suggestedSlot) # {}) =>
       LET U == suggestions[1].suggestedSlot
           hits == Containing(availableSlots, U)
           W == availableSlots[CHOOSE k \in hits : \A h \in hits : k <= h]
           windows == {availableSlots[k] : k \in 1..Len(availableSlots)}
                        \cup {availableSlots'[k] : k \in 1..Len(availableSlots')}
       IN  \A x \in windows :
             WindowCount(availableSlots', x)
               = WindowCount(availableSlots, x)
                 - (IF x = W THEN 1 ELSE 0)
                 + OneIfRemainder(W.start, U.start, x)
                 + OneIfRemainder(U.end, W.end, x)]_vars

\* a window was split in two: the pool now holds the part before the used
\* slot and the part after it
C18_Witness ==
  /\ engine = "removeUsedSlot"
  /\ pc = "done"
  /\ Len(availableSlots) = 2
  /\ availableSlots[1].start < availableSlots[1].end
  /\ availableSlots[1].end = suggestions[1].suggestedSlot.start
  /\ availableSlots[2].start = suggestions[1].suggestedSlot.end
  /\ availableSlots[2].start < availableSlots[2].end

(***************************************************************************)
(* Workload Analyzer.                                                      *)
(***************************************************************************)
\* the calendar days (day numbers) from the day of range.start to the day of
\* range.end
CalendarDays == (dateRange.start \div MinutesPerDay)..(dateRange.end \div MinutesPerDay)

\* the suggestions that start on day
StartingOn(day) ==
  {i \in 1..Len(suggestions) : suggestions[i].suggestedSlot.start \div MinutesPerDay = day}

\* those of them that count as scheduled: confidence above 0.3
ConfidentOn(day) == {i \in StartingOn(day) : suggestions[i].confidence > 30}

RECURSIVE TotalDuration(_)
TotalDuration(idxs) ==
  IF idxs = {} THEN 0
  ELSE LET i == CHOOSE j \in idxs : TRUE
       IN  suggestions[i].task.duration + TotalDuration(idxs \ {i})

IntensityOf(minutes) ==
  IF minutes <= 120 THEN "light"
  ELSE IF minutes <= 240 THEN "moderate"
  ELSE IF minutes <= 360 THEN "heavy"
  ELSE "overloaded"

\* the workload list has one entry per calendar day of the range, and the
\* entry of each day reports the suggestions counted(day)
WorkloadReports(counted(_)) ==
  LET workload == optimization[1].workloadBalance
  IN  /\ Len(workload) = Cardinality(CalendarDays)
      /\ \A day \in CalendarDays :
           \E k \in 1..Len(workload) :
              /\ workload[k].date = day
              /\ \A m \in 1..Len(workload) : workload[m].date = day => m = k
              /\ workload[k].taskCount = Cardinality(counted(day))
              /\ workload[k].minutes = TotalDuration(counted(day))
              /\ workload[k].intensity = IntensityOf(TotalDuration(counted(day)))

C20_BufferBetweenSuggestions ==
  Greedy =>
    \A i, j \in 1..Len(suggestions) :
       (i # j /\ suggestions[i].suggestedSlot.start <= suggestions[j].suggestedSlot.start) =>
          suggestions[j].suggestedSlot.start - suggestions[i].suggestedSlot.end
            >= preferences.bufferTime

(***************************************************************************)
(* Deadline rule of the filter.                                            *)
(***************************************************************************)
DayOf(t) == t \div MinutesPerDay

\* C21: a suggestion the greedy engine commits for a task with a deadline
\* starts on the deadline's calendar day or ends at or before the deadline,
\* and never starts on a calendar day after the deadline day.
C21_DeadlineRespected ==
  Greedy =>
    \A i \in 1..Len(suggestions) :
       suggestions[i].task.deadline # << >> =>
         LET deadline == suggestions[i].task.deadline[1]
             slot == suggestions[i].suggestedSlot
         IN  /\ \/ DayOf(slot.start) = DayOf(deadline)
                \/ slot.end <= deadline
             /\ DayOf(slot.start) <= DayOf(deadline)

\* the engine committed one task on a day before its deadline day and
\* another one on its deadline day, ending after the deadline
C21_Witness ==
  /\ Greedy
  /\ \E i \in 1..Len(suggestions) :
       /\ suggestions[i].task.deadline # << >>
       /\ DayOf(suggestions[i].suggestedSlot.start) < DayOf(suggestions[i].task.deadline[1])
  /\ \E i \in 1..Len(suggestions) :
       /\ suggestions[i].task.deadline # << >>
       /\ DayOf(suggestions[i].suggestedSlot.start) = DayOf(suggestions[i].task.deadline[1])
       /\ suggestions[i].suggestedSlot.end > suggestions[i].task.deadline[1]

(***************************************************************************)
(* Slot Segmenter.                                                         *)
(***************************************************************************)
\* the candidates createDetailedTimeSlots makes of window W alone
CandidatesOf(W, duration) == createDetailedTimeSlots(<<W>>, duration)

\* C22: for the task the loop is at and every window W of the pool: when W is
\* shorter than duration + bufferTime (the configured bufferTime) W itself is
\* the only candidate; otherwise every candidate starts at W.start + k * 60
\* minutes, ends at min(start + 60 minutes, W.end) and lies inside W.
C22_SegmenterUsesBufferTime ==
  Placing =>
    \A w \in 1..Len(availableSlots) :
       LET W == availableSlots[w]
           duration == sortedTasks[idx].duration
           candidates == CandidatesOf(W, duration)
       IN  IF W.end - W.start < duration + preferences.bufferTime
           THEN candidates = <<W>>
           ELSE \A c \in 1..Len(candidates) :
                  /\ candidates[c].start >= W.start
                  /\ (candidates[c].start - W.start) % 60 = 0
                  /\ candidates[c].end
                       = (IF candidates[c].start + 60 <= W.end
                          THEN candidates[c].start + 60 ELSE W.end)
                  /\ candidates[c].end <= W.end

(***************************************************************************)
(* Candidates on the deadline day.                                         *)
(***************************************************************************)
\* the candidates of scored that start on the calendar day of deadline
OnDeadlineDay(scored, deadline) ==
  {k \in 1..Len(scored) : DayOf(scored[k].slot.start) = DayOf(deadline)}

\* the loop is at a task with a deadline, the default analysis and at most
\* two focus blocks
C23_Case ==
  /\ Placing
  /\ sortedTasks[idx].deadline # << >>
  /\ sortedTasks[idx].analysis = getDefaultAnalysis
  /\ Len(preferences.focusTimeBlocks) <= 2

\* when a candidate of scored starts on the deadline day of task: every such
\* candidate scores strictly higher than every candidate on another day, and
\* committed, the suggestions after the step, ends with one for the task
\* that starts on the deadline day
DeadlineDayWins(scored, task, before, committed) ==
  LET sameDay == OnDeadlineDay(scored, task.deadline[1])
  IN  sameDay # {} =>
        /\ \A a \in sameDay : \A b \in (1..Len(scored)) \ sameDay :
              scored[a].score > scored[b].score
        /\ Len(committed) = Len(before) + 1
        /\ committed[Len(committed)].task.id = task.id
        /\ DayOf(committed[Len(committed)].suggestedSlot.start) = DayOf(task.deadline[1])

\* C23: for a task with a deadline, the default analysis and at most two
\* focus blocks, if a surviving candidate starts on the deadline day then
\* every candidate on the deadline day scores strictly higher than every
\* surviving candidate on another day, and the suggestion committed for the
\* task starts on the deadline day.
C23_DeadlineDayWins ==
  [][C23_Case => DeadlineDayWins(ScoredNow, sortedTasks[idx], suggestions, suggestions')]_vars

\* the first task was committed on its deadline day although a window of an
\* earlier day, long enough for it, was in the pool and still is
C23_Witness ==
  /\ Greedy
  /\ idx = 2
  /\ Len(suggestions) = 1
  /\ suggestions[1].task.deadline # << >>
  /\ suggestions[1].task.analysis = getDefaultAnalysis
  /\ Len(preferences.focusTimeBlocks) <= 2
  /\ DayOf(suggestions[1].suggestedSlot.start) = DayOf(suggestions[1].task.deadline[1])
  /\ \E w \in 1..Len(availableSlots) :
       /\ DayOf(availableSlots[w].start) < DayOf(suggestions[1].task.deadline[1])
       /\ availableSlots[w].end - availableSlots[w].start
            >= 60 + suggestions[1].task.duration + preferences.bufferTime

(***************************************************************************)
(* The live service.                                                       *)
(***************************************************************************)
SimpleDone == engine = "simple" /\ pc = "done"

\* C24: in a result of the live service, whenever two suggestions overlap
\* (s1.start < s2.end and s2.start < s1.end) the conflicts list has an
\* overlap entry that names both tasks.
C24_LiveOverlapsReported ==
  SimpleDone =>
    LET result == optimization[1]
    IN  \A i, j \in 1..Len(result.suggestions) :
          (/\ i < j
           /\ result.suggestions[i].suggestedSlot.start < result.suggestions[j].suggestedSlot.end
           /\ result.suggestions[j].suggestedSlot.start < result.suggestions[i].suggestedSlot.end)
          => \E k \in 1..Len(result.conflicts) :
                /\ result.conflicts[k].type = "overlap"
                /\ {result.suggestions[i].task.id, result.suggestions[j].task.id}
                     \subseteq {result.conflicts[k].affectedTasks[m]
                                   : m \in 1..Len(result.conflicts[k].affectedTasks)}

\* the suggestions of the result that are for task number i of the input
SuggestionsFor(i) ==
  {k \in 1..Len(optimization[1].suggestions) :
     optimization[1].suggestions[k].task.id = tasks[i].id}

RangeDone == engine = "calculateOptimalDateRange" /\ pc = "done"

\* the deadlines of the tasks that are not completed
OpenDeadlines ==
  {tasks[i].deadline[1] : i \in {j \in 1..Len(tasks) :
                                   tasks[j].deadline # << >> /\ ~tasks[j].isCompleted}}

Today == (clock \div MinutesPerDay) * MinutesPerDay

\* the last minute of the day of t
LastMinuteOfDay(t) == (t \div MinutesPerDay) * MinutesPerDay + MinutesPerDay - 1

\* C26: a provided range is returned unchanged; without one, when some task
\* that is not completed has a deadline the range runs from the start of
\* today to the end of the day of the latest such deadline and no further;
\* when no task has a deadline it runs from today to the end of today + 7
\* days.
C26_RangeEndsAtLatestDeadline ==
  RangeDone =>
    IF providedRange # << >> THEN dateRange = providedRange[1]
    ELSE /\ dateRange.start = Today
         /\ OpenDeadlines # {} =>
              dateRange.end = LastMinuteOfDay(Latest(OpenDeadlines))
         /\ (\A i \in 1..Len(tasks) : tasks[i].deadline = << >>) =>
              dateRange.end = LastMinuteOfDay(Today + 7 * MinutesPerDay)

(***************************************************************************)
(* syncTasksToCalendar.                                                    *)
(***************************************************************************)
SyncDone == engine = "syncTasksToCalendar" /\ pc = "done"

\* the task ids of the suggestions with confidence >= 0.3, in order
ConfidentIds ==
  LET RECURSIVE from(_)
      from(i) == IF i > Len(suggestions) THEN << >>
                 ELSE IF suggestions[i].confidence >= 30
                      THEN <<suggestions[i].task.id>> \o from(i + 1)
                      ELSE from(i + 1)
  IN  from(1)

\* the attempts that failed, in order
FailedAttempts ==
  LET RECURSIVE from(_)
      from(i) == IF i > Len(sync.attempts) THEN << >>
                 ELSE IF \E j \in 1..Len(sync.syncedEvents) :
                           sync.syncedEvents[j] = sync.attempts[i]
                      THEN from(i + 1)
                      ELSE <<SyncError("createEvent", sync.attempts[i])>> \o from(i + 1)
  IN  from(1)

\* the loop ran: one attempt for each confident suggestion, one error for each
\* failed attempt, and the result built from them
LoopOutcome ==
  /\ sync.attempts = ConfidentIds
  /\ sync.result[1].errors = FailedAttempts
  /\ \A j \in 1..Len(sync.syncedEvents) :
       \E i \in 1..Len(sync.attempts) : sync.attempts[i] = sync.syncedEvents[j]
  /\ sync.result[1].syncedEvents = sync.syncedEvents
  /\ sync.result[1].success = (sync.result[1].errors = << >>)

NotConnectedOutcome ==
  /\ sync.result[1].success = FALSE
  /\ sync.attempts = << >>

C27_StoredOptimizationIsCurrent ==
  (engine = "page" /\ (page.aiOptimization # << >> \/ page.storage # << >>)) =>
    page.computedFrom = <<tasks>>

(***************************************************************************)
(* Completeness of the assigner.                                           *)
(***************************************************************************)
\* window W is long enough for the task with its buffer and has a start (taken
\* every 30 minutes) from which the task with its buffer fits and the deadline
\* test of the filter passes
Admits(W, task) ==
  LET need == task.duration + preferences.bufferTime
  IN  /\ W.end - W.start >= need
      /\ \E k \in 0..((W.end - W.start - need) \div 30) :
           meetsDeadline(TimeSlot(W.start + 30 * k, W.start + 30 * k + need), task)

\* C29: when a task's turn comes and the pool holds a window of length
\* >= duration + bufferTime in which some start satisfies the deadline rule,
\* the step of the loop assigns the task.
C29_FittingWindowAssigned ==
  [][(Placing /\ \E w \in 1..Len(availableSlots) :
                   Admits(availableSlots[w], sortedTasks[idx]))
       => Len(suggestions') = Len(suggestions) + 1]_vars

\* C30: in a result of the greedy engine no task listed in unscheduledTasks
\* has an entry in suggestions.
C30_AssignedAndUnassignedDisjoint ==
  GreedyDone =>
    UnscheduledIds \cap
      {optimization[1].suggestions[i].task.id : i \in 1..Len(optimization[1].suggestions)}
      = {}

====
